---- MODULE Spec2Model ----
(***************************************************************************)
(* Model of src/stl.py: a Streamlit script that turns a natural-language   *)
(* question into SQL, runs it and summarises the result.                   *)
(*                                                                         *)
(* Text is modelled as a sequence of tokens.  The language-model replies   *)
(* use the alphabet  F (the three-backtick fence marker), S (the text      *)
(* "sql"), N (newline), SP (space) and X (any other text).  A Python value *)
(* whose type the code tests (dict / str / DataFrame / None) is a record   *)
(* [type, body].                                                           *)
(***************************************************************************)
EXTENDS Integers, Sequences, FiniteSets, TLC

VARIABLES
    session_keys,       \* keys present in st.session_state
    connection_string,  \* st.session_state.connection_string
    messages,           \* st.session_state.messages
    text_input,         \* value of the sidebar "Connection String" widget
    event,              \* widget event that triggered the current script run
    validation_shown,   \* st.error(...) was rendered in the current script run
    pc,                 \* position of the script inside the chat handler
    prompt,             \* local: the submitted question
    schema,             \* local: result of get_db_schema
    system_prompt,      \* local of generate_sql: the schema embedded in the prompt
    sql_response,       \* local of generate_sql: the model's reply
    sql_query,          \* local: result of generate_sql
    results,            \* local: result of execute_sql
    summary,            \* local: result of summarize_results
    exc,                \* the exception caught by the handler's except clause
    steps,              \* steps performed by the current script run, in order
    turn_start,         \* Len(messages) when the current script run began
    turn_conn           \* connection_string when the current script run began

vars == << session_keys, connection_string, messages, text_input, event,
           validation_shown, pc, prompt, schema, system_prompt, sql_response,
           sql_query, results, summary, exc, steps, turn_start, turn_conn >>

locals == << prompt, schema, system_prompt, sql_response, sql_query, results,
            summary, exc >>

----------------------------------------------------------------------------
(* Bounds of the model *)

MaxMessages == 6        \* a question is accepted while a whole turn still fits
MaxReplyLen == 7        \* longest language-model reply explored by SpecGen

(* Input domains *)

Descriptors  == {"sqlite:///a.db", "bad"}
Questions    == {"q1", "q2"}
Errors       == {"e1"}
Token        == {"F", "S", "N", "SP", "X"}
Whitespace   == {"N", "SP"}

\* Replies of the SQL-generation call tried in the turn pipeline.
GenReplies   == { <<"X">>,
                  <<"F", "S", "N", "X", "N", "F">>,
                  <<"F", "S", "SP", "N", "X", "N", "F">> }
\* Replies of the summarisation call tried in the turn pipeline.
SumReplies   == { <<"X">>, <<"SP", "X", "X", "N">> }

----------------------------------------------------------------------------
(* Python values *)

None          == [type |-> "NoneType", body |-> <<>>]
PyStr(s)      == [type |-> "str", body |-> s]
PyDict(d)     == [type |-> "dict", body |-> d]
DataFrame(d)  == [type |-> "DataFrame", body |-> d]
isinstance(v, t) == v.type = t

RECURSIVE lstrip(_)
lstrip(s) == IF s # <<>> /\ Head(s) \in Whitespace THEN lstrip(Tail(s)) ELSE s

RECURSIVE rstrip(_)
rstrip(s) == IF s # <<>> /\ s[Len(s)] \in Whitespace
             THEN rstrip(SubSeq(s, 1, Len(s) - 1)) ELSE s

\* str.strip()
strip(s) == rstrip(lstrip(s))

----------------------------------------------------------------------------
(* generate_sql, lines 110-119: the reply is stripped, searched with the   *)
(* pattern  ```sql\n(.*?)\n```  (DOTALL), and group 1 is stripped.         *)

\* Start positions at which the pattern's prefix  ```sql\n  matches.
OpenAt(s)  == { i \in 1..(Len(s) - 2) :
                  s[i] = "F" /\ s[i+1] = "S" /\ s[i+2] = "N" }

\* Positions of  \n```  at which a match that opened at i can end.
CloseAt(s, i) == { j \in (i+3)..(Len(s) - 1) : s[j] = "N" /\ s[j+1] = "F" }

Min(S) == CHOOSE x \in S : \A y \in S : x <= y

\* re.search: leftmost start, and for it the shortest (non-greedy) group.
\* The result is <<TRUE, group 1>> or <<FALSE, <<>>>> for None.
re_search(s) ==
    LET starts == { i \in OpenAt(s) : CloseAt(s, i) # {} }
    IN  IF starts = {} THEN << FALSE, <<>> >>
        ELSE LET i == Min(starts)
                 j == Min(CloseAt(s, i))
             IN  << TRUE, SubSeq(s, i + 3, j - 1) >>

generate_sql_extract(content) ==
    LET response == strip(content)
        m        == re_search(response)
    IN  IF m[1] THEN strip(m[2]) ELSE response

----------------------------------------------------------------------------
(* The four components called by the chat handler.  What the database and *)
(* the language model answer is an input of the step that calls them.      *)

SchemaOk == << "T", "a", "b" >>
Rows     == << "row1", "row2" >>

ErrConnecting(e) == << "Error connecting to database: ", e >>
ErrExecuting(e)  == << "Error executing query: ", e >>
ErrProcessing(e) == << "Error processing request: ", e >>

\* get_db_schema: o is "ok" or the exception raised inside the try block.
get_db_schema(o) ==
    IF o = "ok" THEN PyDict(SchemaOk) ELSE PyStr(ErrConnecting(o))

\* execute_sql: o is "ok" or the exception raised inside the try block.
execute_sql(o) ==
    IF o = "ok" THEN DataFrame(Rows) ELSE PyStr(ErrExecuting(o))

\* summarize_results, line 136: the reply's content, stripped.
summarize_results(content) == strip(content)

----------------------------------------------------------------------------
(* Session state initialisation, lines 57-60: a key is set only when the   *)
(* session does not hold it yet.                                           *)

ss_connection_string ==
    IF "connection_string" \in session_keys THEN connection_string ELSE ""

\* Variant of ss_messages: the list is assigned on every run, not only when
\* the key is missing.
ss_messages_Reset == <<>>

ss_messages ==
    IF "messages" \in session_keys THEN messages ELSE <<>>

SessionKeys == {"connection_string", "messages"}

Message(role, content) == [role |-> role, content |-> content]

Placeholder == << "SP" >>

Event(type, arg) == [type |-> type, arg |-> arg]

NoLocals ==
    /\ prompt' = ""
    /\ schema' = None
    /\ system_prompt' = None
    /\ sql_response' = <<>>
    /\ sql_query' = <<>>
    /\ results' = None
    /\ summary' = <<>>
    /\ exc' = ""

\* The part every script run executes before it looks at the widgets.
RunStart(ev) ==
    /\ pc = "idle"
    /\ event' = ev
    /\ session_keys' = session_keys \cup SessionKeys
    /\ turn_start' = Len(ss_messages)
    /\ turn_conn' = ss_connection_string

\* First load of the page, or a rerun that no widget of the script caused.
PageLoad ==
    /\ RunStart(Event("load", ""))
    /\ connection_string' = ss_connection_string
    /\ messages' = ss_messages
    /\ validation_shown' = FALSE
    /\ steps' = <<>>
    /\ pc' = "idle"
    /\ NoLocals
    /\ UNCHANGED text_input

\* The user edits the sidebar text input (lines 65-70) without saving.
EditConnection(d) ==
    /\ session_keys # {}
    /\ RunStart(Event("edit", d))
    /\ text_input' = d
    /\ connection_string' = ss_connection_string
    /\ messages' = ss_messages
    /\ validation_shown' = FALSE
    /\ steps' = <<>>
    /\ pc' = "idle"
    /\ NoLocals

\* Variant of SaveConnection: the descriptor is tried before it is stored,
\* and one that cannot be opened is not stored.
SaveConnection_Validating ==
    /\ session_keys # {}
    /\ RunStart(Event("save", text_input))
    /\ connection_string' = IF text_input = "bad" THEN ss_connection_string
                                                ELSE text_input
    /\ messages' = ss_messages
    /\ validation_shown' = FALSE
    /\ steps' = << "create_engine" >>
    /\ pc' = "idle"
    /\ NoLocals
    /\ UNCHANGED text_input

\* The user presses "Save Connection" (lines 71-73).
SaveConnection ==
    /\ session_keys # {}
    /\ RunStart(Event("save", text_input))
    /\ connection_string' = text_input
    /\ messages' = ss_messages
    /\ validation_shown' = FALSE
    /\ steps' = <<>>
    /\ pc' = "idle"
    /\ NoLocals
    /\ UNCHANGED text_input

\* Variant of SubmitQuestion: the test of the saved descriptor is missing.
SubmitQuestion_NoGuard(q) ==
    /\ session_keys # {}
    /\ RunStart(Event("submit", q))
    /\ connection_string' = ss_connection_string
    /\ schema' = None
    /\ system_prompt' = None
    /\ sql_response' = <<>>
    /\ sql_query' = <<>>
    /\ results' = None
    /\ summary' = <<>>
    /\ exc' = ""
    /\ prompt' = q
    /\ UNCHANGED text_input
    /\ Len(ss_messages) + 3 <= MaxMessages
    /\ validation_shown' = FALSE
    /\ messages' = Append(ss_messages, Message("user", << q >>))
    /\ steps' = << "append_user" >>
    /\ pc' = "get_db_schema"

\* The user submits a question (lines 145-151).  With no saved descriptor
\* the run only renders the validation message; otherwise it appends the
\* user entry and enters the try block.
SubmitQuestion(q) ==
    /\ session_keys # {}
    /\ RunStart(Event("submit", q))
    /\ connection_string' = ss_connection_string
    /\ schema' = None
    /\ system_prompt' = None
    /\ sql_response' = <<>>
    /\ sql_query' = <<>>
    /\ results' = None
    /\ summary' = <<>>
    /\ exc' = ""
    /\ prompt' = q
    /\ UNCHANGED text_input
    /\ IF ss_connection_string = ""
       THEN /\ validation_shown' = TRUE
            /\ messages' = ss_messages
            /\ steps' = <<>>
            /\ pc' = "idle"
       ELSE /\ Len(ss_messages) + 3 <= MaxMessages
            /\ validation_shown' = FALSE
            /\ messages' = Append(ss_messages, Message("user", << q >>))
            /\ steps' = << "append_user" >>
            /\ pc' = "get_db_schema"

\* Line 155.  get_db_schema catches every Exception itself.
GetDbSchema ==
    /\ pc = "get_db_schema"
    /\ \E o \in {"ok"} \cup Errors : schema' = get_db_schema(o)
    /\ steps' = Append(steps, "get_db_schema")
    /\ pc' = "generate_sql"
    /\ UNCHANGED << session_keys, connection_string, messages, text_input, event,
                    validation_shown, prompt, system_prompt, sql_response,
                    sql_query, results, summary, exc, turn_start, turn_conn >>

\* Variant of GenerateSql: the call is made outside the try block, so an
\* exception it raises ends the script run where it is.
GenerateSql_Uncaught ==
    /\ pc = "generate_sql"
    /\ system_prompt' = schema
    /\ steps' = Append(steps, "llm_generate")
    /\ \/ \E r \in GenReplies :
             /\ sql_response' = r
             /\ sql_query' = generate_sql_extract(r)
             /\ pc' = "placeholder"
             /\ UNCHANGED exc
       \/ \E e \in Errors :
             /\ exc' = e
             /\ pc' = "crashed"
             /\ UNCHANGED << sql_response, sql_query >>
    /\ UNCHANGED << session_keys, connection_string, messages, text_input, event,
                    validation_shown, prompt, schema, results, summary,
                    turn_start, turn_conn >>

\* Line 156.  The schema is serialised into the system prompt as it is, the
\* completion call returns a reply or raises, and the reply is parsed.
GenerateSql ==
    /\ pc = "generate_sql"
    /\ system_prompt' = schema
    /\ steps' = Append(steps, "llm_generate")
    /\ \/ \E r \in GenReplies :
             /\ sql_response' = r
             /\ sql_query' = generate_sql_extract(r)
             /\ pc' = "placeholder"
             /\ UNCHANGED exc
       \/ \E e \in Errors :
             /\ exc' = e
             /\ pc' = "except"
             /\ UNCHANGED << sql_response, sql_query >>
    /\ UNCHANGED << session_keys, connection_string, messages, text_input, event,
                    validation_shown, prompt, schema, results, summary,
                    turn_start, turn_conn >>

\* Variant of AppendPlaceholder: nothing is appended.
AppendPlaceholder_Skipped ==
    /\ pc = "placeholder"
    /\ steps' = Append(steps, "append_placeholder")
    /\ pc' = "execute_sql"
    /\ UNCHANGED << session_keys, connection_string, messages, text_input, event,
                    validation_shown, locals, turn_start, turn_conn >>

\* Lines 159-160.
AppendPlaceholder ==
    /\ pc = "placeholder"
    /\ messages' = Append(messages, Message("assistant", Placeholder))
    /\ steps' = Append(steps, "append_placeholder")
    /\ pc' = "execute_sql"
    /\ UNCHANGED << session_keys, connection_string, text_input, event,
                    validation_shown, locals, turn_start, turn_conn >>

\* Variant of ExecuteSql: the isinstance test is missing and the result is
\* always summarised.
ExecuteSql_NoTypeCheck ==
    /\ pc = "execute_sql"
    /\ \E o \in {"ok"} \cup Errors : results' = execute_sql(o)
    /\ steps' = Append(steps, "execute_sql")
    /\ pc' = "summarize"
    /\ UNCHANGED << session_keys, connection_string, messages, text_input, event,
                    validation_shown, prompt, schema, system_prompt, sql_response,
                    sql_query, summary, exc, turn_start, turn_conn >>

\* Lines 163-164.  execute_sql catches every Exception itself; the handler
\* then branches on the type of what it returned.
ExecuteSql ==
    /\ pc = "execute_sql"
    /\ \E o \in {"ok"} \cup Errors : results' = execute_sql(o)
    /\ steps' = Append(steps, "execute_sql")
    /\ pc' = IF isinstance(results', "DataFrame") THEN "summarize" ELSE "report"
    /\ UNCHANGED << session_keys, connection_string, messages, text_input, event,
                    validation_shown, prompt, schema, system_prompt, sql_response,
                    sql_query, summary, exc, turn_start, turn_conn >>

\* Variant of Summarize: a completion call that raises is made again.
Summarize_Retry ==
    /\ pc = "summarize"
    /\ \/ \E r \in SumReplies :
             /\ summary' = summarize_results(r)
             /\ messages' = Append(messages, Message("assistant", summary'))
             /\ steps' = steps \o << "llm_summarize", "append_final" >>
             /\ pc' = "idle"
       \/ /\ steps' = Append(steps, "llm_summarize")
          /\ pc' = "summarize"
          /\ UNCHANGED << messages, summary >>
    /\ UNCHANGED << session_keys, connection_string, text_input, event,
                    validation_shown, prompt, schema, system_prompt, sql_response,
                    sql_query, results, exc, turn_start, turn_conn >>

\* Lines 165-167.
Summarize ==
    /\ pc = "summarize"
    /\ \/ \E r \in SumReplies :
             /\ summary' = summarize_results(r)
             /\ messages' = Append(messages, Message("assistant", summary'))
             /\ steps' = steps \o << "llm_summarize", "append_final" >>
             /\ pc' = "idle"
             /\ UNCHANGED exc
       \/ \E e \in Errors :
             /\ exc' = e
             /\ steps' = Append(steps, "llm_summarize")
             /\ pc' = "except"
             /\ UNCHANGED << messages, summary >>
    /\ UNCHANGED << session_keys, connection_string, text_input, event,
                    validation_shown, prompt, schema, system_prompt, sql_response,
                    sql_query, results, turn_start, turn_conn >>

\* Lines 168-170.
ReportError ==
    /\ pc = "report"
    /\ messages' = Append(messages, Message("assistant", results.body))
    /\ steps' = Append(steps, "append_final")
    /\ pc' = "idle"
    /\ UNCHANGED << session_keys, connection_string, text_input, event,
                    validation_shown, locals, turn_start, turn_conn >>

\* Variant of ExceptHandler: the exception is swallowed without a message.
ExceptHandler_Silent ==
    /\ pc = "except"
    /\ steps' = Append(steps, "append_final")
    /\ pc' = "idle"
    /\ UNCHANGED << session_keys, connection_string, messages, text_input, event,
                    validation_shown, locals, turn_start, turn_conn >>

\* Lines 172-175.
ExceptHandler ==
    /\ pc = "except"
    /\ messages' = Append(messages, Message("assistant", ErrProcessing(exc)))
    /\ steps' = Append(steps, "append_final")
    /\ pc' = "idle"
    /\ UNCHANGED << session_keys, connection_string, text_input, event,
                    validation_shown, locals, turn_start, turn_conn >>

----------------------------------------------------------------------------

\* A new browser session: the session state is empty, the script has not run.
Init ==
    /\ session_keys = {}
    /\ connection_string = ""
    /\ messages = <<>>
    /\ text_input = ""
    /\ event = Event("none", "")
    /\ validation_shown = FALSE
    /\ pc = "idle"
    /\ prompt = ""
    /\ schema = None
    /\ system_prompt = None
    /\ sql_response = <<>>
    /\ sql_query = <<>>
    /\ results = None
    /\ summary = <<>>
    /\ exc = ""
    /\ steps = <<>>
    /\ turn_start = 0
    /\ turn_conn = ""

\* The steps of the try block and its except clause.
Pipeline ==
    \/ GetDbSchema
    \/ GenerateSql
    \/ AppendPlaceholder
    \/ ExecuteSql
    \/ Summarize
    \/ ReportError
    \/ ExceptHandler

Next ==
    \/ PageLoad
    \/ \E d \in Descriptors \cup {""} : EditConnection(d)
    \/ SaveConnection
    \/ \E q \in Questions : SubmitQuestion(q)
    \/ Pipeline

Spec == Init /\ [][Next]_vars

\* The script runs synchronously: a started turn keeps executing.
FairSpec == Spec /\ WF_vars(Pipeline)

----------------------------------------------------------------------------
(* generate_sql's parsing of the reply (lines 110-119) on its own, applied *)
(* to every reply of at most MaxReplyLen tokens.                           *)

Replies == UNION { [1..n -> Token] : n \in 0..MaxReplyLen }

InitGen ==
    /\ session_keys = SessionKeys
    /\ connection_string = "sqlite:///a.db"
    /\ messages = <<>>
    /\ text_input = "sqlite:///a.db"
    /\ event = Event("submit", "q1")
    /\ validation_shown = FALSE
    /\ pc = "parse"
    /\ prompt = "q1"
    /\ schema = PyDict(SchemaOk)
    /\ system_prompt = PyDict(SchemaOk)
    /\ sql_response \in Replies
    /\ sql_query = <<>>
    /\ results = None
    /\ summary = <<>>
    /\ exc = ""
    /\ steps = << "append_user", "get_db_schema", "llm_generate" >>
    /\ turn_start = 0
    /\ turn_conn = "sqlite:///a.db"

ParseReply ==
    /\ pc = "parse"
    /\ sql_query' = generate_sql_extract(sql_response)
    /\ pc' = "parsed"
    /\ UNCHANGED << session_keys, connection_string, messages, text_input, event,
                    validation_shown, prompt, schema, system_prompt, sql_response,
                    results, summary, exc, steps, turn_start, turn_conn >>

NextGen == ParseReply

SpecGen == InitGen /\ [][NextGen]_vars

----------------------------------------------------------------------------
(* Vocabulary of the properties *)

IsPrefix(s, t) == Len(s) <= Len(t) /\ SubSeq(t, 1, Len(s)) = s

\* The entries the current script run has appended so far.
TurnEntries == SubSeq(messages, turn_start + 1, Len(messages))

\* A question was submitted while a descriptor was saved.
TurnStarted == event.type = "submit" /\ turn_conn # ""

\* ... and the script run it started has ended.
TurnDone == TurnStarted /\ pc = "idle"

UserEntry      == Message("user", << event.arg >>)
PlaceholderEntry == Message("assistant", Placeholder)

Summaries == { summarize_results(r) : r \in SumReplies }
IsSummaryEntry(m) == m.role = "assistant" /\ m.content \in Summaries
IsErrorEntry(m) ==
    /\ m.role = "assistant"
    /\ \E e \in Errors : m.content \in { ErrExecuting(e), ErrProcessing(e) }
IsProcessingError(m) ==
    /\ m.role = "assistant"
    /\ \E e \in Errors : m.content = ErrProcessing(e)

AssistantCount(t) == Cardinality({ i \in 1..Len(t) : t[i].role = "assistant" })
UserCount(t)      == Cardinality({ i \in 1..Len(t) : t[i].role = "user" })
Count(t, x)       == Cardinality({ i \in 1..Len(t) : t[i] = x })

\* The SQL generation call of the current turn raised.
GenRaised == exc # "" /\ "append_placeholder" \notin { steps[i] : i \in 1..Len(steps) }

----------------------------------------------------------------------------
(* C1, as stated: every turn taken while a descriptor is saved appends one *)
(* user entry followed by assistant entries, the first of which is the     *)
(* placeholder, followed by a summary entry or an error-message entry.     *)
C1_AsStated ==
    TurnDone =>
        LET t == TurnEntries
        IN  /\ Len(t) >= 3
            /\ t[1] = UserEntry
            /\ UserCount(t) = 1
            /\ t[2] = PlaceholderEntry
            /\ IsSummaryEntry(t[3]) \/ IsErrorEntry(t[3])

(* C1, amended: every turn taken while a descriptor is saved appends       *)
(* exactly one user entry followed by one or more assistant entries: the   *)
(* placeholder entry followed by one summary or error-message entry when   *)
(* the SQL generation call returned, and a single error-message entry with *)
(* no placeholder before it when the SQL generation call raised.           *)
C1_TurnShape ==
    TurnDone =>
        LET t == TurnEntries
        IN  /\ Len(t) >= 2
            /\ t[1] = UserEntry
            /\ UserCount(t) = 1
            /\ IF GenRaised
               THEN t = << UserEntry, Message("assistant", ErrProcessing(exc)) >>
               ELSE /\ Len(t) = 3
                    /\ t[2] = PlaceholderEntry
                    /\ IsSummaryEntry(t[3]) \/ IsErrorEntry(t[3])

C1_Witness ==
    /\ TurnDone
    /\ GenRaised
    /\ Len(TurnEntries) = 2

(* C3: in a turn where schema inspection, SQL generation, execution and    *)
(* summarisation all succeed, the history grows by exactly three entries:  *)
(* the user entry holding the question, the placeholder entry, and the     *)
(* assistant entry holding the summary the Summarizer returned.            *)
AllSucceeded ==
    /\ TurnDone
    /\ isinstance(schema, "dict")
    /\ sql_response # <<>>
    /\ isinstance(results, "DataFrame")
    /\ exc = ""

C3_SuccessfulTurn ==
    AllSucceeded =>
        /\ Len(messages) = turn_start + 3
        /\ TurnEntries = << Message("user", << prompt >>),
                            PlaceholderEntry,
                            Message("assistant", summary) >>
        /\ summary \in Summaries
        /\ prompt = event.arg

C3_Witness ==
    /\ AllSucceeded
    /\ turn_start > 0
    /\ Len(messages) = turn_start + 3

(* C4, as stated: when the Query Executor returns an error string, the     *)
(* Summarizer is not called and exactly one assistant entry is appended in *)
(* that turn, the error entry carrying the executor's error string.        *)
ExecFailed == TurnDone /\ isinstance(results, "str")

SummarizerCalled == "llm_summarize" \in { steps[i] : i \in 1..Len(steps) }

C4_AsStated ==
    ExecFailed =>
        /\ ~SummarizerCalled
        /\ AssistantCount(TurnEntries) = 1
        /\ messages[Len(messages)] = Message("assistant", results.body)

(* C4, amended: when the Query Executor returns an error string, the       *)
(* Summarizer is not called and exactly two assistant entries are appended *)
(* in that turn: the placeholder entry, then exactly one error entry,      *)
(* which carries the executor's error string.                              *)
C4_ExecError ==
    ExecFailed =>
        /\ ~SummarizerCalled
        /\ TurnEntries = << UserEntry, PlaceholderEntry,
                            Message("assistant", results.body) >>
        /\ \E e \in Errors : results.body = ErrExecuting(e)
        /\ Cardinality({ i \in 1..Len(TurnEntries) :
                            IsErrorEntry(TurnEntries[i]) }) = 1

C4_Witness ==
    /\ ExecFailed
    /\ Len(TurnEntries) = 3
    /\ isinstance(schema, "dict")

(* C2: a question submitted while the saved descriptor is empty shows the  *)
(* validation message and leaves the history unchanged; the run performs   *)
(* no schema inspection, no language-model call and no query execution.    *)
SubmitStep == pc = "idle" /\ event'.type = "submit"

C2_EmptyDescriptor ==
    [][ (SubmitStep /\ connection_string = "") =>
            /\ validation_shown'
            /\ messages' = messages
            /\ steps' = <<>>
            /\ pc' = "idle"
            /\ connection_string' = "" ]_vars

C2_Witness ==
    /\ validation_shown
    /\ event.type = "submit"
    /\ connection_string = ""
    /\ Len(messages) >= 2
    /\ steps = <<>>

(* C5: an exception raised by a step of the turn is caught: exactly one    *)
(* 'Error processing request: <message>' entry is appended, as the last    *)
(* entry of the turn, the saved descriptor is unchanged and still          *)
(* non-empty, and every started turn runs to completion, so the controller *)
(* is back where it accepts the next question.                             *)
C5_Caught ==
    /\ (TurnStarted /\ pc = "except") => (exc # "" /\ connection_string = turn_conn)
    /\ (TurnDone /\ exc # "") =>
          LET t == TurnEntries
          IN  /\ t[Len(t)] = Message("assistant", ErrProcessing(exc))
              /\ Cardinality({ i \in 1..Len(t) : IsProcessingError(t[i]) }) = 1
              /\ connection_string = turn_conn
              /\ connection_string # ""
    /\ (TurnDone /\ exc = "") =>
          \A i \in 1..Len(TurnEntries) : ~IsProcessingError(TurnEntries[i])

C5_ErrorsNeverEndTheConversation ==
    /\ []C5_Caught
    /\ (pc # "idle") ~> (pc = "idle")

C5_Witness ==
    /\ TurnDone
    /\ exc # ""
    /\ SummarizerCalled
    /\ turn_start > 0
    /\ messages[turn_start] = Message("assistant", ErrProcessing(exc))

(* C6: the history is append-only over every step (save, submission, page  *)
(* rerun, pipeline step): the previous history is a prefix of the new one, *)
(* and every entry's role is 'user' or 'assistant'.                        *)
C6_AppendOnly ==
    /\ [](\A i \in 1..Len(messages) : messages[i].role \in {"user", "assistant"})
    /\ [][ IsPrefix(messages, messages') ]_vars

C6_Witness ==
    /\ event.type \in {"load", "save"}
    /\ Len(messages) >= 5
    /\ connection_string = ""

(* C7: the saved descriptor starts empty and changes only in a Save step,  *)
(* which stores the text of the input as it is, without opening a          *)
(* connection; editing the input, submitting a question and the pipeline   *)
(* steps leave it alone.                                                   *)
SaveStep == pc = "idle" /\ event'.type = "save"

C7_Step ==
    /\ connection_string' # connection_string => SaveStep
    /\ (connection_string = "" /\ connection_string' # "") =>
           (SaveStep /\ text_input # "")
    /\ SaveStep =>
           /\ connection_string' = text_input
           /\ steps' = <<>>
           /\ pc' = "idle"
           /\ messages' = messages

C7_SavedOnlyBySave ==
    /\ connection_string = ""
    /\ [][ C7_Step ]_vars

C7_Witness ==
    /\ event.type = "save"
    /\ connection_string = "bad"
    /\ steps = <<>>

(* C8: when get_db_schema returns its 'Error connecting to database: ...'  *)
(* string, that message is appended to the conversation as an assistant    *)
(* entry of the turn, and the error string is not handed to the SQL        *)
(* Generator as if it were a schema.                                       *)
C8_SchemaErrorHandled ==
    /\ system_prompt # None => isinstance(system_prompt, "dict")
    /\ (TurnDone /\ isinstance(schema, "str")) =>
           \E i \in 1..Len(TurnEntries) :
               TurnEntries[i] = Message("assistant", schema.body)

(* C9: for every reply, generate_sql returns the stripped contents of the  *)
(* first fenced code block tagged as SQL when the reply holds one, and the *)
(* stripped reply when it holds none.  A fenced block tagged as SQL is     *)
(* read as Markdown reads it: an opening line made of the fence marker,    *)
(* the tag 'sql' and optional trailing spaces, and a closing fence marker  *)
(* at the start of a later line.                                           *)

\* i opens a block: fence, tag, spaces, newline.  The result is the position
\* of that newline, or 0.
RECURSIVE EndOfSpaces(_, _)
EndOfSpaces(r, k) ==
    IF k <= Len(r) /\ r[k] = "SP" THEN EndOfSpaces(r, k + 1) ELSE k

OpeningLineEnd(r, i) ==
    IF i + 1 <= Len(r) /\ r[i] = "F" /\ r[i+1] = "S"
    THEN LET n == EndOfSpaces(r, i + 2)
         IN  IF n <= Len(r) /\ r[n] = "N" THEN n ELSE 0
    ELSE 0

ClosingFences(r, n) == { k \in (n+1)..Len(r) : r[k] = "F" /\ r[k-1] = "N" }

FencedSqlBlocks(r) ==
    { i \in 1..Len(r) :
        OpeningLineEnd(r, i) # 0 /\ ClosingFences(r, OpeningLineEnd(r, i)) # {} }

FirstBlockContents(r) ==
    LET i == Min(FencedSqlBlocks(r))
        n == OpeningLineEnd(r, i)
        k == Min(ClosingFences(r, n))
    IN  SubSeq(r, n + 1, k - 1)

C9_Expected(r) ==
    IF FencedSqlBlocks(strip(r)) # {}
    THEN strip(FirstBlockContents(strip(r)))
    ELSE strip(r)

C9_ExtractsFencedBlock ==
    pc = "parsed" => sql_query = C9_Expected(sql_response)

(* C10: in every turn the steps happen at most once each and in the order  *)
(* user entry, schema inspection, SQL-generation call, placeholder entry,  *)
(* query execution, summarisation call (made if and only if execution      *)
(* returned a table), final assistant entry; a completed turn has made two *)
(* language-model calls when execution returned a table and one otherwise. *)
FullTurn == << "append_user", "get_db_schema", "llm_generate",
               "append_placeholder", "execute_sql", "llm_summarize",
               "append_final" >>
NoTableTurn == << "append_user", "get_db_schema", "llm_generate",
                  "append_placeholder", "execute_sql", "append_final" >>
GenRaisedTurn == << "append_user", "get_db_schema", "llm_generate",
                    "append_final" >>

LlmCalls == Cardinality({ i \in 1..Len(steps) :
                             steps[i] \in {"llm_generate", "llm_summarize"} })

C10_StepOrder ==
    TurnStarted =>
        /\ \/ IsPrefix(steps, FullTurn)
           \/ IsPrefix(steps, NoTableTurn)
           \/ IsPrefix(steps, GenRaisedTurn)
        /\ pc = "idle" =>
              /\ steps \in { FullTurn, NoTableTurn, GenRaisedTurn }
              /\ SummarizerCalled <=> isinstance(results, "DataFrame")
              /\ LlmCalls = IF isinstance(results, "DataFrame") THEN 2 ELSE 1
              /\ (exc # "" /\ steps = FullTurn) => summary = <<>>
        /\ (pc \in {"report", "except"} \/ pc = "idle") =>
              (SummarizerCalled => isinstance(results, "DataFrame"))
        /\ pc = "report" => ~isinstance(results, "DataFrame")

C10_Witness ==
    /\ TurnDone
    /\ steps = FullTurn
    /\ exc # ""
    /\ LlmCalls = 2

====
